---- MODULE Spec2Model ----
(***************************************************************************)
(* Model of steps/container.py: the Container handle that drives a docker  *)
(* engine (module global d) for behave test steps.                         *)
(*                                                                         *)
(* Python values: an optional value (None or v) is the sequence <<>> or    *)
(* <<v>>; a str is a sequence of one-character strings; a list is a        *)
(* sequence; a dict is a function from its keys.                           *)
(***************************************************************************)
EXTENDS Integers, Sequences, FiniteSets, TLC

VARIABLES self, d, files, osenv, args, pc, log, result

vars == <<self, d, files, osenv, args, pc, log, result>>

----------------------------------------------------------------------------
(* Bounds of the model *)

MaxVolStr == 3
MaxEnvStr == 4
MaxContainers == 2
MaxNameLen == 3
MaxRemoveFails == 5

----------------------------------------------------------------------------
(* Python values *)

None == <<>>
Some(v) == <<v>>
IsNone(o) == o = <<>>
Val(o) == o[1]

EmptyDict == [k \in {} |-> <<>>]

DictUpdate(m, k, v) == [x \in DOMAIN m \cup {k} |-> IF x = k THEN v ELSE m[x]]

RECURSIVE SplitAcc(_, _, _, _)
SplitAcc(s, sep, cur, acc) ==
    IF s = <<>> THEN Append(acc, cur)
    ELSE IF Head(s) = sep THEN SplitAcc(Tail(s), sep, <<>>, Append(acc, cur))
    ELSE SplitAcc(Tail(s), sep, Append(cur, Head(s)), acc)

\* str.split(sep)
split(s, sep) == SplitAcc(s, sep, <<>>, <<>>)

RECURSIVE Split1Acc(_, _, _)
Split1Acc(s, sep, cur) ==
    IF s = <<>> THEN <<cur>>
    ELSE IF Head(s) = sep THEN <<cur, Tail(s)>>
    ELSE Split1Acc(Tail(s), sep, Append(cur, Head(s)))

\* str.split(sep, 1)
split1(s, sep) == Split1Acc(s, sep, <<>>)

RECURSIVE StrOver(_, _)
StrOver(alphabet, n) ==
    IF n = 0 THEN {<<>>}
    ELSE LET shorter == StrOver(alphabet, n - 1)
         IN shorter \cup {Append(s, c) : s \in shorter, c \in alphabet}

----------------------------------------------------------------------------
(* Container.__init__ *)

\* lines 66-72: the CTF_DOCKER_VOLUMES override.  The list method extend is
\* called on None when an explicit volumes argument was given; the
\* AttributeError is caught by the except clause and volumes stays None.
InitVolumes(volumes, environ_) ==
    IF "CTF_DOCKER_VOLUMES" \in DOMAIN environ_
    THEN LET fresh == IF IsNone(volumes) THEN Some(<<>>) ELSE None
         IN IF IsNone(fresh) THEN fresh
            ELSE Some(Val(fresh) \o split(environ_["CTF_DOCKER_VOLUMES"], ","))
    ELSE volumes

\* lines 77-79: the loop over the entries; unpacking an entry without '='
\* raises ValueError, which ends the loop with the entries parsed so far.
\* the loop keeping the first value of a repeated name
RECURSIVE InitEnvLoop_FirstWins(_, _)
InitEnvLoop_FirstWins(variables, environ) ==
    IF variables = <<>> THEN environ
    ELSE LET parts == split1(Head(variables), "=")
         IN IF Len(parts) # 2 THEN environ
            ELSE InitEnvLoop_FirstWins(
                     Tail(variables),
                     IF parts[1] \in DOMAIN environ THEN environ
                     ELSE DictUpdate(environ, parts[1], parts[2]))

RECURSIVE InitEnvLoop(_, _)
InitEnvLoop(variables, environ) ==
    IF variables = <<>> THEN environ
    ELSE LET parts == split1(Head(variables), "=")
         IN IF Len(parts) # 2 THEN environ
            ELSE InitEnvLoop(Tail(variables), DictUpdate(environ, parts[1], parts[2]))

\* lines 74-81: the CTF_DOCKER_ENV override
InitEnviron(environ_) ==
    IF "CTF_DOCKER_ENV" \in DOMAIN environ_
    THEN InitEnvLoop(split(environ_["CTF_DOCKER_ENV"], ","), EmptyDict)
    ELSE EmptyDict

\* lines 51-81
Container(a, environ_) ==
    [image_id |-> a.image_id,
     container |-> None,
     name |-> a.name,
     ip_address |-> None,
     output_dir |-> a.output_dir,
     save_output |-> a.save_output,
     remove_image |-> a.remove_image,
     kwargs |-> a.kwargs,
     running |-> FALSE,
     volumes |-> InitVolumes(a.volumes, environ_),
     environ |-> InitEnviron(environ_),
     entrypoint |-> a.entrypoint]

----------------------------------------------------------------------------
(* The engine behind the module global d (lines 34-37): the containers it
   was asked to create, in order; a container's Id is its index.  The log of
   a method call lists the calls it made, each with the engine's answer. *)

Ok(ok) == IF ok THEN "ok" ELSE "error"

PollLimit == 15
RemoveRetryLimit == 3

Digits == <<"1", "2", "3", "4", "5", "6", "7", "8", "9">>

\* the Id of a container as a str
IdStr(id) == <<Digits[id]>>

\* what the engine reports as the logs of a container (bytes)
EngineLogs(id) == <<"L">> \o IdStr(id)

\* str() of a bytes value, as print applies it, followed by print's newline
PrintBytes(b) == <<"b", "'">> \o b \o <<"'", "\n">>

\* an exception: its type, the arguments of its message and its output attribute
Exc(type, message, output) == [type |-> type, message |-> message, output |-> output]

\* the error of the n-th failing call of an engine method
APIError(call, n) == Exc("APIError", <<call, n>>, None)

\* outcome of a method: the handle, the engine and the files afterwards, the
\* calls made in order, the exception raised (or None) and the value returned
Outcome(s, eng, fs, lg, exc, ret) ==
    [self |-> s, d |-> eng, files |-> fs, log |-> lg, exc |-> exc, ret |-> ret]

Truthy(o) == ~IsNone(o) /\ Val(o) # <<>>

----------------------------------------------------------------------------
(* Container._remove_container, lines 99-112.  fails is the number of
   consecutive remove calls the engine fails, starting with the first. *)

\* _remove_container giving up one failure later
RECURSIVE _remove_container_FiveTries(_, _, _, _, _)
_remove_container_FiveTries(s, eng, number, fails, lg) ==
    LET id == Val(s.container)
    IN IF number > fails
       THEN [d |-> [eng EXCEPT ![id] = "removed"],
             log |-> Append(lg, <<"remove_container", id, "ok">>), exc |-> None]
       ELSE LET lg1 == Append(lg, <<"remove_container", id, "error">>)
            IN IF number > RemoveRetryLimit + 1
               THEN [d |-> eng, log |-> lg1,
                     exc |-> Some(APIError("remove_container", number))]
               ELSE _remove_container_FiveTries(s, eng, number + 1, fails,
                                                Append(lg1, <<"sleep", 20>>))

RECURSIVE _remove_container(_, _, _, _, _)
_remove_container(s, eng, number, fails, lg) ==
    LET id == Val(s.container)
    IN IF number > fails
       THEN [d |-> [eng EXCEPT ![id] = "removed"],
             log |-> Append(lg, <<"remove_container", id, "ok">>), exc |-> None]
       ELSE LET lg1 == Append(lg, <<"remove_container", id, "error">>)
            IN IF number > RemoveRetryLimit
               THEN [d |-> eng, log |-> lg1,
                     exc |-> Some(APIError("remove_container", number))]
               ELSE _remove_container(s, eng, number + 1, fails,
                                      Append(lg1, <<"sleep", 20>>))

----------------------------------------------------------------------------
(* Container.stop, lines 114-139 *)

WordChars == {"a", "b", "n", "L", "_"} \cup {Digits[i] : i \in 1..9}

\* line 125: keep the characters matching [\w\ ], then replace " " by "_"
Filename(name) ==
    LET kept == SelectSeq(name, LAMBDA ch : ch \in WordChars \cup {" "})
    IN [i \in 1..Len(kept) |-> IF kept[i] = " " THEN "_" ELSE kept[i]]

\* StopContainer without the assignment of line 139
StopContainer_KeepsReference(s, eng, fs, lg, c) ==
    IF IsNone(s.container) THEN Outcome(s, eng, fs, lg, None, None)
    ELSE LET id == Val(s.container)
             lg1 == Append(lg, <<"inspect_container", id, Ok(c.inspectOk)>>)
         IN IF ~c.inspectOk
            THEN Outcome(s, eng, fs, lg1, Some(APIError("inspect_container", 0)), None)
            ELSE LET kill == eng[id] = "running"
                     lg2 == IF kill THEN Append(lg1, <<"kill", id, Ok(c.killOk)>>) ELSE lg1
                 IN IF kill /\ ~c.killOk
                    THEN Outcome(s, eng, fs, lg2, Some(APIError("kill", 0)), None)
                    ELSE LET eng2 == IF kill THEN [eng EXCEPT ![id] = "exited"] ELSE eng
                             s2 == [s EXCEPT !.running = FALSE]
                             r == _remove_container(s2, eng2, 1, c.removeFails, lg2)
                         IN Outcome(s2, r.d, fs, r.log, r.exc, None)

\* killing whatever the inspection reports
ShouldKill_Always(eng, id) == TRUE

\* line 135: self.inspect()['State']['Running']
ShouldKill(eng, id) == eng[id] = "running"

\* lines 132-139
StopContainer(s, eng, fs, lg, c) ==
    IF IsNone(s.container) THEN Outcome(s, eng, fs, lg, None, None)
    ELSE LET id == Val(s.container)
             lg1 == Append(lg, <<"inspect_container", id, Ok(c.inspectOk)>>)
         IN IF ~c.inspectOk
            THEN Outcome(s, eng, fs, lg1, Some(APIError("inspect_container", 0)), None)
            ELSE LET kill == ShouldKill(eng, id)
                     lg2 == IF kill THEN Append(lg1, <<"kill", id, Ok(c.killOk)>>) ELSE lg1
                 IN IF kill /\ ~c.killOk
                    THEN Outcome(s, eng, fs, lg2, Some(APIError("kill", 0)), None)
                    ELSE LET eng2 == IF kill THEN [eng EXCEPT ![id] = "exited"] ELSE eng
                             s2 == [s EXCEPT !.running = FALSE]
                             r == _remove_container(s2, eng2, 1, c.removeFails, lg2)
                         IN IF ~IsNone(r.exc)
                            THEN Outcome(s2, r.d, fs, r.log, r.exc, None)
                            ELSE Outcome([s2 EXCEPT !.container = None],
                                         r.d, fs, r.log, None, None)

\* saving the output of any container the handle refers to
ShouldSave_IgnoresRunning(s) == ~IsNone(s.container) /\ s.save_output

\* line 119
ShouldSave(s) == s.running /\ s.save_output

\* lines 114-139
stop(s, eng, fs, c) ==
    LET lg == <<<<"call", "stop">>>>
    IN IF ShouldSave(s)
       THEN LET id == Val(s.container)
                name1 == IF Truthy(s.name)
                         THEN Some(Val(s.name) \o <<"_">> \o IdStr(id))
                         ELSE Some(IdStr(id))
                s1 == [s EXCEPT !.name = name1]
                out_path == s.output_dir \o <<"/">> \o Filename(Val(name1))
                                \o <<".", "t", "x", "t">>
                fs1 == DictUpdate(fs, out_path, <<>>)
                lg1 == lg \o <<<<"open", out_path>>, <<"logs", id, Ok(c.logsOk)>>>>
            IN IF ~c.logsOk
               THEN Outcome(s1, eng, fs1, lg1, Some(APIError("logs", 0)), None)
               ELSE StopContainer(s1, eng,
                                  DictUpdate(fs, out_path, PrintBytes(EngineLogs(id))),
                                  lg1, c)
       ELSE StopContainer(s, eng, fs, lg, c)

\* what the engine answers during one stop: the first call it fails, if any,
\* and the number of remove calls it fails
StopChoice(failing, removeFails) ==
    [logsOk |-> failing # "logs", inspectOk |-> failing # "inspect_container",
     killOk |-> failing # "kill", removeFails |-> removeFails]

StopChoices ==
    {StopChoice(failing, 0) : failing \in {"logs", "inspect_container", "kill"}}
    \cup {StopChoice("none", n) : n \in 0..MaxRemoveFails}

----------------------------------------------------------------------------
(* Container._create_container, lines 204-255 *)

\* lines 210-217
MountPoints(volumes) ==
    IF Truthy(volumes)
    THEN Some([i \in 1..Len(Val(volumes)) |-> split(Val(volumes)[i], ":")[1]])
    ELSE None

\* lines 211, 217
HostArgs(volumes) ==
    IF Truthy(volumes) THEN [binds |-> Val(volumes)] ELSE EmptyDict

\* dict.update
Update(m, n) == [k \in DOMAIN m \cup DOMAIN n |-> IF k \in DOMAIN n THEN n[k] ELSE m[k]]

\* lines 219-222
MergeEnvironment(s, kwargs) ==
    Update(IF "environment" \in DOMAIN kwargs THEN kwargs["environment"] ELSE EmptyDict,
           s.environ)

\* json.loads, for the texts that are an object of string members without
\* escapes or white space; any other text is refused as json.loads refuses a
\* malformed one
Quote == "\""

JsonFail == [ok |-> FALSE, val |-> EmptyDict, next |-> 0]

\* the string literal that starts at position i of text t
JsonString(t, i) ==
    IF i > Len(t) \/ t[i] # Quote THEN JsonFail
    ELSE LET closing == {j \in (i + 1)..Len(t) : t[j] = Quote}
         IN IF closing = {} THEN JsonFail
            ELSE LET j == CHOOSE x \in closing : \A y \in closing : x <= y
                 IN [ok |-> TRUE, val |-> SubSeq(t, i + 1, j - 1), next |-> j + 1]

RECURSIVE JsonMembers(_, _, _)

\* the member of name k and value v is read: the object ends or goes on; a
\* repeated name keeps its last value
JsonMember(t, acc, k, v) ==
    IF ~v.ok \/ v.next > Len(t) THEN JsonFail
    ELSE IF t[v.next] = "}" /\ v.next = Len(t)
    THEN [ok |-> TRUE, val |-> DictUpdate(acc, k.val, v.val), next |-> v.next + 1]
    ELSE IF t[v.next] = ","
    THEN JsonMembers(t, v.next + 1, DictUpdate(acc, k.val, v.val))
    ELSE JsonFail

\* the name k is read: a colon and the value follow
JsonNamed(t, acc, k) ==
    IF ~k.ok \/ k.next > Len(t) \/ t[k.next] # ":" THEN JsonFail
    ELSE JsonMember(t, acc, k, JsonString(t, k.next + 1))

\* the members of an object from position i on
JsonMembers(t, i, acc) == JsonNamed(t, acc, JsonString(t, i))

json_loads(t) ==
    IF t = <<"{", "}">> THEN [ok |-> TRUE, val |-> EmptyDict, next |-> 3]
    ELSE IF Len(t) >= 2 /\ t[1] = "{" THEN JsonMembers(t, 2, EmptyDict)
    ELSE JsonFail

MergeEnvJson_EnvironmentWins(environment, env) == Update(env, environment)

\* lines 227-230: the decoded env_json is merged over the environment
MergeEnvJson(environment, env) == Update(environment, env)

\* lines 238-239: the names taken as arguments of create_host_config
HostConfigNames == {"binds", "privileged", "cpu_quota", "cpu_period", "mem_limit"}

DigitValue(ch) == CHOOSE n \in 1..9 : Digits[n] = ch

RECURSIVE IntOf(_, _)
IntOf(str, acc) ==
    IF str = <<>> THEN acc ELSE IntOf(Tail(str), 10 * acc + DigitValue(Head(str)))

\* lines 243-246: int(value), the value itself when int refuses it
IntCoerce(str) ==
    IF str # <<>> /\ \A i \in 1..Len(str) : \E n \in 1..9 : Digits[n] = str[i]
    THEN IntOf(str, 0)
    ELSE str

\* lines 240-246: the arguments moved from kwargs to host_args
PartitionHostArgs(host_args, kwargs) ==
    LET moved == DOMAIN kwargs \cap HostConfigNames
    IN [host_args |-> [k \in DOMAIN host_args \cup moved |->
                          IF k \in moved THEN IntCoerce(kwargs[k]) ELSE host_args[k]],
        kwargs |-> [k \in DOMAIN kwargs \ moved |-> kwargs[k]]]

\* lines 227-231: the decoded env_json is merged in and the key deleted
EnvJsonDecoded(kwargs1, env) ==
    IF ~env.ok
    THEN [kwargs |-> kwargs1, exc |-> Some(Exc("ValueError", <<"json.loads">>, None))]
    ELSE [kwargs |-> [k \in DOMAIN kwargs1 \ {"env_json"} |->
                         IF k = "environment"
                         THEN MergeEnvJson(kwargs1["environment"], env.val)
                         ELSE kwargs1[k]],
          exc |-> None]

\* lines 226-231
EnvJsonMerged(kwargs1) ==
    IF "env_json" \in DOMAIN kwargs1
    THEN EnvJsonDecoded(kwargs1, json_loads(kwargs1["env_json"]))
    ELSE [kwargs |-> kwargs1, exc |-> None]

\* lines 219-231: kwargs after the environment merges, and the error raised
\* by json.loads if any
MergedKwargs(s, kwargs) ==
    EnvJsonMerged(DictUpdate(kwargs, "environment", MergeEnvironment(s, kwargs)))

\* lines 248-255: the create_container call
CreateCall(s, eng, c, parts) ==
    LET call == <<"create_container",
                  [image |-> s.image_id, detach |-> TRUE,
                   entrypoint |-> s.entrypoint,
                   volumes |-> MountPoints(s.volumes),
                   host_config |-> parts.host_args,
                   kwargs |-> parts.kwargs],
                  Ok(c.createOk)>>
    IN IF ~c.createOk
       THEN [self |-> s, d |-> eng, log |-> <<call>>,
             exc |-> Some(APIError("create_container", 0)), kwargs |-> parts.kwargs]
       ELSE [self |-> [s EXCEPT !.container = Some(Len(eng) + 1)],
             d |-> Append(eng, "created"), log |-> <<call>>, exc |-> None,
             kwargs |-> parts.kwargs]

\* lines 232-255: what follows the environment merges
CreateMerged(s, eng, c, merged) ==
    IF ~IsNone(merged.exc)
    THEN [self |-> s, d |-> eng, log |-> <<>>, exc |-> merged.exc,
          kwargs |-> merged.kwargs]
    ELSE CreateCall(s, eng, c, PartitionHostArgs(HostArgs(s.volumes), merged.kwargs))

\* lines 204-255.  The result carries the kwargs as the method leaves them.
_create_container(s, eng, kwargs, c) ==
    IF s.running
    THEN [self |-> s, d |-> eng, log |-> <<>>, exc |-> None, kwargs |-> kwargs]
    ELSE CreateMerged(s, eng, c, MergedKwargs(s, kwargs))

----------------------------------------------------------------------------
(* Container.start, lines 91-97, and Container.startWithCommand, lines
   141-147, which differ in the tty argument only *)

\* StartContainer with running set before the engine's start call
StartContainer_RunningBeforeStart(s, eng, fs, lg, c) ==
    IF IsNone(s.container)
    THEN Outcome(s, eng, fs, lg, Some(Exc("AttributeError", <<"get">>, None)), None)
    ELSE LET id == Val(s.container)
             startOk == c.startOk /\ eng[id] # "removed"
             lg1 == Append(lg, <<"start", id, Ok(startOk)>>)
             s1 == [s EXCEPT !.running = TRUE]
         IN IF ~startOk
            THEN Outcome(s1, eng, fs, lg1, Some(APIError("start", 0)), None)
            ELSE LET eng1 == [eng EXCEPT ![id] = "running"]
                     lg2 == Append(lg1, <<"inspect_container", id, Ok(c.inspectOk)>>)
                 IN IF ~c.inspectOk
                    THEN Outcome(s1, eng1, fs, lg2,
                                 Some(APIError("inspect_container", 0)), None)
                    ELSE Outcome([s1 EXCEPT !.ip_address = Some(c.ip)],
                                 eng1, fs, lg2, None, None)

\* lines 94-97 and 144-147: what follows _create_container
StartContainer(s, eng, fs, lg, c) ==
    IF IsNone(s.container)
    THEN Outcome(s, eng, fs, lg, Some(Exc("AttributeError", <<"get">>, None)), None)
    ELSE LET id == Val(s.container)
             startOk == c.startOk /\ eng[id] # "removed"
             lg1 == Append(lg, <<"start", id, Ok(startOk)>>)
         IN IF ~startOk
            THEN Outcome(s, eng, fs, lg1, Some(APIError("start", 0)), None)
            ELSE LET eng1 == [eng EXCEPT ![id] = "running"]
                     s1 == [s EXCEPT !.running = TRUE]
                     lg2 == Append(lg1, <<"inspect_container", id, Ok(c.inspectOk)>>)
                 IN IF ~c.inspectOk
                    THEN Outcome(s1, eng1, fs, lg2,
                                 Some(APIError("inspect_container", 0)), None)
                    ELSE Outcome([s1 EXCEPT !.ip_address = Some(c.ip)],
                                 eng1, fs, lg2, None, None)

\* lines 93-94 and 143-144: _create_container came to r
Created(fs, called, c, r) ==
    IF ~IsNone(r.exc) THEN Outcome(r.self, r.d, fs, called \o r.log, r.exc, None)
    ELSE StartContainer(r.self, r.d, fs, called \o r.log, c)

StartWith(s, eng, fs, kwargs, marker, c) ==
    Created(fs, <<<<"call", marker, kwargs>>>>, c, _create_container(s, eng, kwargs, c))

\* lines 91-97
start(s, eng, fs, kwargs, c) == StartWith(s, eng, fs, kwargs, "start", c)

\* lines 141-147
startWithCommand(s, eng, fs, kwargs, c) ==
    StartWith(s, eng, fs, DictUpdate(kwargs, "tty", TRUE), "startWithCommand", c)

IPs == {"ip1", "ip2"}

\* what the engine answers during one start: the first call it fails, if
\* any, and the address it reports
StartChoice(failing, ip) ==
    [createOk |-> failing # "create_container", startOk |-> failing # "start",
     inspectOk |-> failing # "inspect_container", ip |-> ip]

StartChoices ==
    {StartChoice(failing, "ip1") :
        failing \in {"create_container", "start", "inspect_container"}}
    \cup {StartChoice("none", ip) : ip \in IPs}

----------------------------------------------------------------------------
(* Container.execute, lines 149-172.  The engine resolves the exit code at
   inspection number c.resolveAt (0 is the inspection of line 158, k the one
   of the k-th pass of the loop): earlier inspections report None, that one
   reports c.answer.rc or fails when c.answer.err. *)

ExitCodes == {0, 1, 2}

Outputs == {"out1", "out2"}

Cmds == {"ls"}

\* d.exec_inspect(inst)['ExitCode'] at inspection number i
ExecInspect(c, i) ==
    IF i < c.resolveAt THEN [err |-> FALSE, retcode |-> None]
    ELSE [err |-> c.answer.err, retcode |-> Some(c.answer.rc)]

\* line 167: the output is formatted into the message; the output argument
\* is left at its default
ExecTimedOut(cmd, output) ==
    Exc("ExecException", <<"Command", cmd, "timed out, output:", output>>, None)

\* the failure exception without its output argument
ExecFailed_NoOutput(cmd, retcode, output) ==
    Exc("ExecException", <<"Command", cmd, "failed to execute, return code:", retcode>>,
        None)

\* line 170
ExecFailed(cmd, retcode, output) ==
    Exc("ExecException", <<"Command", cmd, "failed to execute, return code:", retcode>>,
        Some(output))

\* lines 162-172
RECURSIVE ExecPoll(_, _, _, _, _, _, _, _)
ExecPoll(s, eng, fs, cmd, output, count, retcode, st) ==
    IF IsNone(retcode)
    THEN LET count1 == count + 1
             a == ExecInspect(st.c, count1)
             lg1 == Append(st.log, <<"exec_inspect", count1, a>>)
         IN IF a.err
            THEN Outcome(s, eng, fs, lg1, Some(APIError("exec_inspect", count1)), None)
            ELSE LET lg2 == Append(lg1, <<"sleep", 1>>)
                 IN IF count1 > PollLimit
                    THEN Outcome(s, eng, fs, lg2, Some(ExecTimedOut(cmd, output)), None)
                    ELSE ExecPoll(s, eng, fs, cmd, output, count1, a.retcode,
                                  [st EXCEPT !.log = lg2])
    ELSE IF Val(retcode) # 0
         THEN Outcome(s, eng, fs, st.log,
                      Some(ExecFailed(cmd, Val(retcode), output)), None)
         ELSE Outcome(s, eng, fs, st.log, None, Some(output))

\* lines 149-172
execute(s, eng, fs, cmd, detach, c) ==
    LET createOk == /\ c.createOk
                    /\ ~IsNone(s.container)
                    /\ eng[Val(s.container)] = "running"
        lg == <<<<"call", "execute", cmd, detach>>,
                <<"exec_create", s.container, cmd, Ok(createOk)>>>>
    IN IF ~createOk
       THEN Outcome(s, eng, fs, lg, Some(APIError("exec_create", 0)), None)
       ELSE LET lg1 == Append(lg, <<"exec_start", detach,
                                    IF c.startOk /\ ~detach THEN Some(c.output) ELSE None,
                                    Ok(c.startOk)>>)
            IN IF ~c.startOk
               THEN Outcome(s, eng, fs, lg1, Some(APIError("exec_start", 0)), None)
               ELSE IF detach THEN Outcome(s, eng, fs, lg1, None, None)
               ELSE LET a == ExecInspect(c, 0)
                        lg2 == Append(lg1, <<"exec_inspect", 0, a>>)
                    IN IF a.err
                       THEN Outcome(s, eng, fs, lg2,
                                    Some(APIError("exec_inspect", 0)), None)
                       ELSE ExecPoll(s, eng, fs, cmd, c.output, 0, a.retcode,
                                     [c |-> c, log |-> lg2])

ExecAnswers ==
    {[err |-> TRUE, rc |-> 0]} \cup {[err |-> FALSE, rc |-> rc] : rc \in ExitCodes}

\* the exit code resolves at an inspection the loop makes, or at none of them
ExecRuns ==
    [createOk : {TRUE}, startOk : {TRUE}, output : Outputs,
     resolveAt : 0..(PollLimit + 2), answer : ExecAnswers]

ExecChoices ==
    ExecRuns \cup
    {[createOk |-> ok, startOk |-> ~ok, output |-> "out1", resolveAt |-> 0,
      answer |-> [err |-> FALSE, rc |-> 0]] : ok \in BOOLEAN}

----------------------------------------------------------------------------
(* Container.remove_image, lines 184-186: the method of the class *)

remove_image_method(s, lg, c) ==
    LET lg1 == Append(lg, <<"remove_image", s.image_id, Ok(c.removeImageOk)>>)
    IN [log |-> lg1,
        exc |-> IF c.removeImageOk THEN None ELSE Some(APIError("remove_image", 0))]

\* The call self.remove_image() of line 89.  The attribute is found on the
\* instance, where line 58 stored the constructor's flag over the method's
\* name; the flag is a bool, and calling it raises TypeError.
CallSelfRemoveImage(s, lg, c) ==
    IF s.remove_image \in BOOLEAN
    THEN [log |-> lg, exc |-> Some(Exc("TypeError", <<"bool", "not callable">>, None))]
    ELSE remove_image_method(s, lg, c)

----------------------------------------------------------------------------
(* The context manager, lines 83-89 *)

\* the kwargs dict is unpacked into a fresh dict, but its environment value
\* is the same dict object, which lines 221 and 229 update in place
AliasedKwargs(s) ==
    IF ~s.running /\ "environment" \in DOMAIN s.kwargs
    THEN [s.kwargs EXCEPT !["environment"] = MergedKwargs(s, s.kwargs).kwargs["environment"]]
    ELSE s.kwargs

\* lines 83-84
__enter__(s, eng, fs, c) ==
    LET r == start(s, eng, fs, s.kwargs, c)
    IN [r EXCEPT !.self = [r.self EXCEPT !.kwargs = AliasedKwargs(s)],
                 !.log = <<<<"call", "__enter__">>>> \o r.log]

\* __exit__ that stops only when the body did not raise
__exit___StopOnlyOnSuccess(s, eng, fs, c) ==
    IF c.raised
    THEN Outcome(s, eng, fs, <<<<"call", "__exit__", c.raised>>>>, None, None)
    ELSE LET r == stop(s, eng, fs, c)
         IN [r EXCEPT !.log = <<<<"call", "__exit__", c.raised>>>> \o r.log]

\* lines 86-89
__exit__(s, eng, fs, c) ==
    LET r == stop(s, eng, fs, c)
        lg == <<<<"call", "__exit__", c.raised>>>> \o r.log
    IN IF ~IsNone(r.exc) THEN [r EXCEPT !.log = lg]
       ELSE IF r.self.remove_image
            THEN LET q == CallSelfRemoveImage(r.self, lg, c)
                 IN [r EXCEPT !.log = q.log, !.exc = q.exc]
            ELSE [r EXCEPT !.log = lg]

\* what the engine answers during one __exit__, and whether the body raised
ExitChoices ==
    {[logsOk |-> c.logsOk, inspectOk |-> c.inspectOk, killOk |-> c.killOk,
      removeFails |-> c.removeFails, removeImageOk |-> ok, raised |-> raised] :
        c \in StopChoices, ok \in BOOLEAN, raised \in BOOLEAN}

----------------------------------------------------------------------------
(* Inputs *)

VolChars == {"a", ":", ","}

EnvChars == {"a", "=", ","}

Volume1 == <<"a", ":", "b">>

\* os.environ: any subset of the two override variables
OsEnvirons(volStrs, envStrs) ==
    {EmptyDict}
    \cup {[k \in {"CTF_DOCKER_VOLUMES"} |-> v] : v \in volStrs}
    \cup {[k \in {"CTF_DOCKER_ENV"} |-> e] : e \in envStrs}
    \cup {[k \in {"CTF_DOCKER_VOLUMES", "CTF_DOCKER_ENV"} |->
              IF k = "CTF_DOCKER_VOLUMES" THEN v ELSE e] : v \in volStrs, e \in envStrs}

Environment1 == [k \in {<<"a">>} |-> <<"1">>]

Environment2 == [k \in {<<"a">>, <<"c">>} |-> <<"1">>]

\* {"a":"2","e":"3"}
EnvJson1 ==
    <<"{", Quote, "a", Quote, ":", Quote, "2", Quote, ",",
      Quote, "e", Quote, ":", Quote, "3", Quote, "}">>

\* a text cut short: {"a":"2"
EnvJson2 == <<"{", Quote, "a", Quote, ":", Quote, "2", Quote>>

KwargsSet ==
    {EmptyDict,
     [k \in {"environment", "mem_limit"} |->
         IF k = "environment" THEN Environment1 ELSE <<"5", "a">>],
     [k \in {"environment", "env_json"} |->
         IF k = "environment" THEN Environment2 ELSE EnvJson1],
     [k \in {"env_json", "mem_limit"} |-> IF k = "env_json" THEN EnvJson1 ELSE <<"5">>],
     [k \in {"env_json"} |-> EnvJson2]}

CtorArgs(names, flags, volumes, kwargs) ==
    [image_id : {"img"}, name : names, remove_image : flags, output_dir : {<<"o">>},
     save_output : flags, volumes : volumes, entrypoint : {None}, kwargs : kwargs]

----------------------------------------------------------------------------
(* The handle in use: Init is the state after construction *)

NoCall == [op |-> "none", exc |-> None, ret |-> None]

Init ==
    /\ args \in CtorArgs({None, Some(<<"n">>)}, BOOLEAN, {None},
                         {[k \in {"environment"} |-> Environment1]})
    /\ osenv = [k \in {"CTF_DOCKER_VOLUMES", "CTF_DOCKER_ENV"} |->
                    IF k = "CTF_DOCKER_VOLUMES" THEN Volume1 ELSE <<"a", "=", "b">>]
    /\ self = Container(args, osenv)
    /\ d = <<>>
    /\ files = EmptyDict
    /\ pc = "idle"
    /\ log = <<>>
    /\ result = NoCall

\* no call is in progress: the handle has one owner, whose calls are
\* synchronous
Ready == pc # "new" /\ result = NoCall

\* a method was called and came to this outcome
Called(op, r) ==
    /\ self' = r.self
    /\ d' = r.d
    /\ files' = r.files
    /\ log' = r.log
    /\ result' = [op |-> op, exc |-> r.exc, ret |-> r.ret]
    /\ UNCHANGED <<osenv, args>>

CanCreate(c) == self.running \/ ~c.createOk \/ Len(d) < MaxContainers

NameLen == IF IsNone(self.name) THEN 0 ELSE Len(Val(self.name))

CanStop == (self.running /\ self.save_output) => NameLen <= MaxNameLen

Start ==
    /\ Ready
    /\ \E kwargs \in KwargsSet, c \in StartChoices :
          /\ CanCreate(c)
          /\ Called("start", start(self, d, files, kwargs, c))
    /\ UNCHANGED pc

StartWithCommand ==
    /\ Ready
    /\ \E kwargs \in KwargsSet, c \in StartChoices :
          /\ CanCreate(c)
          /\ Called("startWithCommand", startWithCommand(self, d, files, kwargs, c))
    /\ UNCHANGED pc

Stop ==
    /\ Ready
    /\ CanStop
    /\ \E c \in StopChoices : Called("stop", stop(self, d, files, c))
    /\ UNCHANGED pc

Execute ==
    /\ Ready
    /\ \E cmd \in Cmds, detach \in BOOLEAN, c \in ExecChoices :
          Called("execute", execute(self, d, files, cmd, detach, c))
    /\ UNCHANGED pc

\* with handle: -- __enter__ raising leaves the statement without running the
\* body or __exit__
WithEnter ==
    /\ Ready
    /\ pc = "idle"
    /\ \E c \in StartChoices :
          /\ CanCreate(c)
          /\ LET r == __enter__(self, d, files, c)
             IN /\ Called("__enter__", r)
                /\ pc' = IF IsNone(r.exc) THEN "body" ELSE "idle"

\* the body of the with statement is left, normally or by an exception of
\* the body; __exit__ returns None, so that exception is raised again
WithExit ==
    /\ Ready
    /\ pc = "body"
    /\ CanStop
    /\ \E c \in ExitChoices :
          LET r == __exit__(self, d, files, c)
              exc == IF IsNone(r.exc) /\ c.raised
                     THEN Some(Exc("BodyError", <<>>, None)) ELSE r.exc
          IN Called("__exit__", [r EXCEPT !.exc = exc])
    /\ pc' = "idle"

\* the caller takes the outcome of the call
Return ==
    /\ result # NoCall
    /\ pc # "new"
    /\ log' = <<>>
    /\ result' = NoCall
    /\ UNCHANGED <<self, d, files, osenv, args, pc>>

\* the main process of a running container ends by itself
ContainerExits ==
    /\ Ready
    /\ \E id \in DOMAIN d :
          /\ d[id] = "running"
          /\ d' = [d EXCEPT ![id] = "exited"]
    /\ UNCHANGED <<self, files, osenv, args, pc, log, result>>

Next ==
    \/ Start
    \/ StartWithCommand
    \/ Stop
    \/ Execute
    \/ Return
    \/ ContainerExits

Spec == Init /\ [][Next]_vars

----------------------------------------------------------------------------
(* The handle as a context manager: with handle: body, where the body may
   start and stop the handle itself *)

NextWith ==
    \/ WithEnter
    \/ WithExit
    \/ Start
    \/ Stop
    \/ Return
    \/ ContainerExits

SpecWith == Init /\ [][NextWith]_vars

----------------------------------------------------------------------------
(* Construction on its own, over the values of the constructor's volumes
   argument and of the two override variables *)

\* lines 68-70: what the body of the first try statement raises
InitVolumesRaised(volumes, environ_) ==
    IF "CTF_DOCKER_VOLUMES" \in DOMAIN environ_ /\ ~IsNone(volumes)
    THEN Some(Exc("AttributeError", <<"NoneType", "extend">>, None))
    ELSE None

\* lines 76-79: what the body of the second try statement raises
InitEnvironRaised(environ_) ==
    IF /\ "CTF_DOCKER_ENV" \in DOMAIN environ_
       /\ \E i \in DOMAIN split(environ_["CTF_DOCKER_ENV"], ",") :
             Len(split1(split(environ_["CTF_DOCKER_ENV"], ",")[i], "=")) # 2
    THEN Some(Exc("ValueError", <<"unpack">>, None))
    ELSE None

\* an except clause that lets the exception go on
ExceptException_Reraises(raised, message) ==
    [exc |-> raised, log |-> <<>>]

\* lines 71-72 and 80-81: except Exception as e: self.logger.error(...)
ExceptException(raised, message) ==
    [exc |-> None,
     log |-> IF IsNone(raised) THEN <<>> ELSE <<<<"logger.error", message>>>>]

\* lines 51-81: the handle, the errors logged and the exception raised
__init__(a, environ_) ==
    LET v == ExceptException(InitVolumesRaised(a.volumes, environ_),
                             "Cannot parse CTF_DOCKER_VOLUME variable")
        e == ExceptException(InitEnvironRaised(environ_),
                             "Cannot parse CTF_DOCKER_ENV variable")
    IN [self |-> Container(a, environ_),
        log |-> v.log \o e.log,
        exc |-> IF ~IsNone(v.exc) THEN v.exc ELSE e.exc]

InitCtor ==
    /\ args \in CtorArgs({None}, {FALSE},
                         {None, Some(<<>>), Some(<<Volume1>>),
                          Some(<<Volume1, <<"b">>>>)},
                         {EmptyDict})
    /\ osenv \in OsEnvirons(StrOver(VolChars, MaxVolStr), StrOver(EnvChars, MaxEnvStr))
    /\ self = EmptyDict
    /\ d = <<>>
    /\ files = EmptyDict
    /\ pc = "new"
    /\ log = <<>>
    /\ result = NoCall

Construct ==
    /\ pc = "new"
    /\ LET r == __init__(args, osenv)
       IN /\ self' = r.self
          /\ log' = r.log
          /\ result' = [op |-> "__init__", exc |-> r.exc, ret |-> None]
    /\ pc' = "idle"
    /\ UNCHANGED <<d, files, osenv, args>>

NextCtor == Construct

SpecCtor == InitCtor /\ [][NextCtor]_vars

----------------------------------------------------------------------------
(* Reading the log of a call *)

Events(lg, tag) == SelectSeq(lg, LAMBDA e : e[1] = tag)

Sleeps(lg, seconds) == SelectSeq(lg, LAMBDA e : e[1] = "sleep" /\ e[2] = seconds)

\* the calls made to the engine, the file system and the clock
EngineCalls(lg) == SelectSeq(lg, LAMBDA e : e[1] # "call")

AnswerOf(e) == e[Len(e)]

\* the inspections of the exit code that resolved it, and the passes of the loop
ExecInspections == Events(log, "exec_inspect")

Resolved == SelectSeq(ExecInspections, LAMBDA e : ~e[3].err /\ ~IsNone(e[3].retcode))

Polls == SelectSeq(ExecInspections, LAMBDA e : e[2] >= 1)

\* the output a non-detached exec_start returned
Captured == Events(log, "exec_start")[1][3]

NotDetached == result.op = "execute" /\ ~log[1][4]

----------------------------------------------------------------------------
(* Claims *)

\* C1: in a stop, the remove calls number at most 4; every remove call but the
\* last failed; if the last (the 4th) failed, its error is what stop raises;
\* if the last succeeded on attempt k, stop raises nothing and made exactly k
\* remove calls with k - 1 waits of 20 seconds between them.
C1_RemovalRetry ==
    result.op = "stop" =>
        LET rm == Events(log, "remove_container")
            n == Len(rm)
        IN /\ n <= 4
           /\ \A i \in 1..(n - 1) : AnswerOf(rm[i]) = "error"
           /\ Len(Sleeps(log, 20)) = (IF n = 0 THEN 0 ELSE n - 1)
           /\ (n > 0 /\ AnswerOf(rm[n]) = "error") =>
                 /\ n = 4
                 /\ result.exc = Some(APIError("remove_container", 4))
           /\ (n > 0 /\ AnswerOf(rm[n]) = "ok") => IsNone(result.exc)

\* a stop whose four remove calls all failed
C1_Witness ==
    /\ result.op = "stop"
    /\ Len(Events(log, "remove_container")) = 4
    /\ AnswerOf(log[Len(log)]) = "error"
    /\ ~IsNone(result.exc)

\* C2: start on a handle whose running flag is true makes no call to the
\* engine and leaves container, running and ip_address as they were.
C2_StartWhileRunningIsNoOp ==
    [][(self.running /\ result'.op = "start") =>
          /\ EngineCalls(log') = <<>>
          /\ self'.container = self.container
          /\ self'.running = self.running
          /\ self'.ip_address = self.ip_address]_vars

\* C3: whenever the body of a with statement is left, normally or by an
\* exception, __exit__ is called and the first thing it does is call stop.
C3_ExitStopsFirst ==
    [][(pc = "body" /\ pc' # "body") =>
          /\ result'.op = "__exit__"
          /\ Len(log') >= 2
          /\ log'[1][1] = "call" /\ log'[1][2] = "__exit__"
          /\ log'[2] = <<"call", "stop">>]_vars

\* the body raised, and __exit__ called stop and killed the container
C3_Witness ==
    /\ result.op = "__exit__"
    /\ log[1][3]
    /\ log[2] = <<"call", "stop">>
    /\ Events(log, "kill") # <<>>

\* C4: when __exit__ has stopped the container without an engine failure, a
\* handle constructed with remove_image=True has then asked the engine to
\* remove image_id, and a handle constructed with remove_image=False has made
\* no such call.
C4_ExitRemovesImage ==
    (result.op = "__exit__"
        /\ \A i \in 1..Len(log) : log[i][1] # "call" => AnswerOf(log[i]) # "error") =>
        /\ log[2] = <<"call", "stop">>
        /\ IF args.remove_image
           THEN /\ log[Len(log)][1] = "remove_image"
                /\ log[Len(log)][2] = self.image_id
           ELSE Events(log, "remove_image") = <<>>

\* C5: a non-detached execute whose exit code resolves at an inspection
\* numbered at most 15 returns the captured output and raises nothing when
\* the exit code is 0, and otherwise raises ExecException whose message
\* holds the exit code and whose output is the captured output.
C5_ExecuteByExitCode ==
    (NotDetached /\ Resolved # <<>> /\ Resolved[1][2] <= PollLimit) =>
        LET rc == Val(Resolved[1][3].retcode)
        IN IF rc = 0
           THEN /\ IsNone(result.exc)
                /\ result.ret = Captured
           ELSE /\ ~IsNone(result.exc)
                /\ Val(result.exc).type = "ExecException"
                /\ Val(result.exc).message[3] = "failed to execute, return code:"
                /\ Val(result.exc).message[4] = rc
                /\ Val(result.exc).output = Captured

\* the exit code 2 resolved at the 15th pass of the loop
C5_Witness ==
    /\ NotDetached
    /\ Resolved # <<>>
    /\ Resolved[1][2] = PollLimit
    /\ Val(Resolved[1][3].retcode) = 2
    /\ ~IsNone(result.exc)

\* C6: a non-detached execute polls the exit code at most 15 times, with one
\* sleep of a second per poll, and raises the timeout ExecException when the
\* exit code is unknown at every inspection.
C6_AtMostFifteenPolls ==
    NotDetached =>
        /\ Len(Polls) <= 15
        /\ Len(Sleeps(log, 1)) <= 15
        /\ (Len(ExecInspections) > 1 /\ Resolved = <<>>
              /\ ~AnswerOf(log[Len(log)]).err) =>
              /\ ~IsNone(result.exc)
              /\ Val(result.exc).type = "ExecException"

\* C7: every ExecException execute raises, for a timeout as for a non-zero
\* exit code, has the captured output as its output attribute.
C7_ExecExceptionCarriesOutput ==
    (NotDetached /\ ~IsNone(result.exc) /\ Val(result.exc).type = "ExecException") =>
        Val(result.exc).output = Captured

\* C8: the container reference is non-null only for a container this handle
\* had the engine create and has not had it remove; it is null while nothing
\* was created and after every stop whose remove call succeeded.
C8_ContainerReference ==
    /\ ~IsNone(self.container) =>
          /\ Val(self.container) \in DOMAIN d
          /\ d[Val(self.container)] # "removed"
    /\ (result.op = "stop"
          /\ \E i \in 1..Len(log) :
                log[i][1] = "remove_container" /\ AnswerOf(log[i]) = "ok") =>
          IsNone(self.container)

\* a stop removed the container at its third attempt
C8_Witness ==
    /\ result.op = "stop"
    /\ Len(Events(log, "remove_container")) = 3
    /\ IsNone(result.exc)
    /\ IsNone(self.container)
    /\ "removed" \in {d[i] : i \in DOMAIN d}

\* C9: running implies a container reference; a stop that returns normally
\* leaves running false; running becomes true only in a start or
\* startWithCommand whose start call the engine answered without error.
C9_Running ==
    /\ [](self.running => ~IsNone(self.container))
    /\ []((result.op = "stop" /\ IsNone(result.exc)) => ~self.running)
    /\ [][(~self.running /\ self'.running) =>
             /\ result'.op \in {"start", "startWithCommand"}
             /\ \E i \in 1..Len(log') :
                   log'[i][1] = "start" /\ AnswerOf(log'[i]) = "ok"]_vars

\* a stop that killed the running container and returned normally
C9_Witness ==
    /\ result.op = "stop"
    /\ IsNone(result.exc)
    /\ Events(log, "kill") # <<>>
    /\ ~self.running

\* C10: constructed with the volumes argument V and CTF_DOCKER_VOLUMES set to
\* the comma-separated list E, the handle's volumes are the entries of V
\* followed by the entries of E.
C10_VolumesMerged ==
    (pc = "idle" /\ "CTF_DOCKER_VOLUMES" \in DOMAIN osenv) =>
        self.volumes =
            Some((IF IsNone(args.volumes) THEN <<>> ELSE Val(args.volumes))
                 \o split(osenv["CTF_DOCKER_VOLUMES"], ","))

\* the create_container calls of a start or startWithCommand, the kwargs the
\* method was called with and the mappings they hold
Creates == Events(log, "create_container")

CallKwargs == log[1][3]

KwEnvironment ==
    IF "environment" \in DOMAIN CallKwargs THEN CallKwargs["environment"] ELSE EmptyDict

KwEnvJson ==
    IF "env_json" \in DOMAIN CallKwargs
    THEN json_loads(CallKwargs["env_json"]).val ELSE EmptyDict

\* C11: the environment passed to create_container has the keys of the
\* environment kwarg, of the instance environ and of the decoded env_json
\* together; a key of env_json has the env_json value, any other key of
\* environ the environ value, the remaining keys the value of the
\* environment kwarg; the env_json key itself is not passed.
C11_EnvironmentMerged ==
    \A i \in 1..Len(Creates) :
        LET passed == Creates[i][2].kwargs
        IN /\ "env_json" \notin DOMAIN passed
           /\ "environment" \in DOMAIN passed
           /\ DOMAIN passed["environment"] =
                 DOMAIN KwEnvironment \cup DOMAIN self.environ \cup DOMAIN KwEnvJson
           /\ \A k \in DOMAIN passed["environment"] :
                 passed["environment"][k] =
                    IF k \in DOMAIN KwEnvJson THEN KwEnvJson[k]
                    ELSE IF k \in DOMAIN self.environ THEN self.environ[k]
                    ELSE KwEnvironment[k]

\* a container created from kwargs whose environment, the instance environ
\* and env_json all set the key a
C11_Witness ==
    /\ result.op = "start"
    /\ Creates # <<>>
    /\ AnswerOf(Creates[1]) = "ok"
    /\ <<"a">> \in DOMAIN KwEnvironment \cap DOMAIN self.environ \cap DOMAIN KwEnvJson
    /\ <<"c">> \in DOMAIN KwEnvironment

\* C12: with volumes, create_container is passed the container-side path of
\* every bind spec hostPath:containerPath:mode, in order, as its mount points
\* and the bind specs as the binds of the host configuration; without
\* volumes it is passed neither.
C12_MountPoints ==
    \A i \in 1..Len(Creates) :
        LET passed == Creates[i][2]
        IN IF Truthy(self.volumes)
           THEN /\ passed.volumes =
                      Some([j \in 1..Len(Val(self.volumes)) |->
                               split(Val(self.volumes)[j], ":")[2]])
                /\ "binds" \in DOMAIN passed.host_config
                /\ passed.host_config["binds"] = Val(self.volumes)
           ELSE /\ IsNone(passed.volumes)
                /\ "binds" \notin DOMAIN passed.host_config

\* the entries of CTF_DOCKER_ENV, and the name and the value of an entry:
\* the text before and the text after its first '='
EnvEntries == split(osenv["CTF_DOCKER_ENV"], ",")

HasEq(e) == \E i \in 1..Len(e) : e[i] = "="

FirstEq(e) == CHOOSE i \in 1..Len(e) : e[i] = "=" /\ \A j \in 1..(i - 1) : e[j] # "="

NameOf(e) == SubSeq(e, 1, FirstEq(e) - 1)

ValueOf(e) == SubSeq(e, FirstEq(e) + 1, Len(e))

\* C13: constructed with CTF_DOCKER_ENV a comma-separated list of entries
\* that all contain '=', the handle's environ has the names of the entries
\* as its keys and maps each name to the value of the last entry of that name.
C13_EnvironParsed ==
    (pc = "idle" /\ "CTF_DOCKER_ENV" \in DOMAIN osenv
        /\ \A i \in DOMAIN EnvEntries : HasEq(EnvEntries[i])) =>
        /\ DOMAIN self.environ = {NameOf(EnvEntries[i]) : i \in DOMAIN EnvEntries}
        /\ \A i \in DOMAIN EnvEntries :
              (\A j \in DOMAIN EnvEntries :
                  j > i => NameOf(EnvEntries[j]) # NameOf(EnvEntries[i])) =>
                  self.environ[NameOf(EnvEntries[i])] = ValueOf(EnvEntries[i])

\* two entries of the same name and different values
C13_Witness ==
    /\ pc = "idle"
    /\ "CTF_DOCKER_ENV" \in DOMAIN osenv
    /\ Len(EnvEntries) = 2
    /\ HasEq(EnvEntries[1]) /\ HasEq(EnvEntries[2])
    /\ NameOf(EnvEntries[1]) = NameOf(EnvEntries[2])
    /\ ValueOf(EnvEntries[1]) # ValueOf(EnvEntries[2])

\* C14: whatever the two override variables and the volumes argument are,
\* the constructor raises nothing, and every entry of CTF_DOCKER_ENV that
\* comes before the first entry without '=' has its name in environ.
C14_ConstructionNeverFails ==
    pc = "idle" =>
        /\ result.op = "__init__"
        /\ IsNone(result.exc)
        /\ "CTF_DOCKER_ENV" \in DOMAIN osenv =>
              \A i \in DOMAIN EnvEntries :
                  (\A j \in 1..i : HasEq(EnvEntries[j])) =>
                      /\ NameOf(EnvEntries[i]) \in DOMAIN self.environ
                      /\ \E j \in i..Len(EnvEntries) :
                            /\ \A l \in 1..j : HasEq(EnvEntries[l])
                            /\ self.environ[NameOf(EnvEntries[i])] = ValueOf(EnvEntries[j])

\* an entry without '=' after a well-formed one, and an explicit volumes
\* argument with CTF_DOCKER_VOLUMES set
C14_Witness ==
    /\ pc = "idle"
    /\ "CTF_DOCKER_ENV" \in DOMAIN osenv
    /\ "CTF_DOCKER_VOLUMES" \in DOMAIN osenv
    /\ ~IsNone(args.volumes)
    /\ Len(EnvEntries) = 2
    /\ HasEq(EnvEntries[1]) /\ ~HasEq(EnvEntries[2])
    /\ DOMAIN self.environ = {NameOf(EnvEntries[1])}
    /\ Len(log) = 2

\* the files a stop opened, the logs calls it made, and the path the file of
\* container id is to have for the name given at construction
Opens == Events(log, "open")

LogsCalls == Events(log, "logs")

OutPath(name) == self.output_dir \o <<"/">> \o Filename(name) \o <<".", "t", "x", "t">>

NameForId(id) ==
    IF Truthy(args.name) THEN Val(args.name) \o <<"_">> \o IdStr(id) ELSE IdStr(id)

\* C15: after a stop of a handle with save_output=True that fetched the logs
\* of its container, the file <output_dir>/<sanitized name>.txt, named from
\* name and the container's identifier, holds the logs the engine reported;
\* a handle with save_output=False has written no file.
C15_LogFileWritten ==
    result.op = "stop" =>
        IF args.save_output
        THEN \A i \in 1..Len(LogsCalls) :
                AnswerOf(LogsCalls[i]) = "ok" =>
                    /\ OutPath(NameForId(LogsCalls[i][2])) \in DOMAIN files
                    /\ files[OutPath(NameForId(LogsCalls[i][2]))] =
                          EngineLogs(LogsCalls[i][2])
        ELSE files = EmptyDict /\ Opens = <<>>

\* the place of a call in the order of a stop
StopRank(e) ==
    IF e[1] = "call" THEN 0
    ELSE IF e[1] \in {"open", "logs"} THEN 1
    ELSE IF e[1] = "inspect_container" THEN 2
    ELSE IF e[1] = "kill" THEN 3
    ELSE 4

\* C16: a stop saves the log, then inspects, then kills, then attempts the
\* removal, then clears the reference; it kills exactly when the inspection
\* reports the container running; running is false once a removal was
\* attempted; the reference is cleared only when a removal succeeded; without
\* a container reference stop makes no call at all.
C16_StopOrder ==
    [][result'.op = "stop" =>
          LET inspects == Events(log', "inspect_container")
              kills == Events(log', "kill")
              removes == Events(log', "remove_container")
          IN /\ \A i, j \in 1..Len(log') :
                   i < j => StopRank(log'[i]) <= StopRank(log'[j])
             /\ Len(inspects) <= 1 /\ Len(kills) <= 1
             /\ kills # <<>> <=>
                   /\ inspects # <<>>
                   /\ AnswerOf(inspects[1]) = "ok"
                   /\ d[Val(self.container)] = "running"
             /\ removes # <<>> => ~self'.running
             /\ (self'.container # self.container) =>
                   /\ IsNone(self'.container)
                   /\ AnswerOf(log'[Len(log')]) = "ok"
                   /\ log'[Len(log')][1] = "remove_container"
             /\ IsNone(self.container) => EngineCalls(log') = <<>>]_vars

\* a stop that saved the log, killed the container and removed it at the
\* second attempt
C16_Witness ==
    /\ result.op = "stop"
    /\ Opens # <<>>
    /\ Events(log, "kill") # <<>>
    /\ Len(Events(log, "remove_container")) = 2
    /\ IsNone(self.container)

\* C17: in a non-detached execute, whenever an inspection of the exit code,
\* the last poll included, reported a resolved exit code, the outcome is the
\* one of that exit code: the output for 0, the failure ExecException
\* otherwise, and never the timeout.
C17_TimeoutOnlyIfUnresolved ==
    (NotDetached /\ Resolved # <<>>) =>
        IF Val(Resolved[1][3].retcode) = 0
        THEN IsNone(result.exc) /\ result.ret = Captured
        ELSE /\ ~IsNone(result.exc)
             /\ Val(result.exc).type = "ExecException"
             /\ Val(result.exc).message[3] = "failed to execute, return code:"

\* C18: every container the engine created for this handle and has not
\* removed is the one the handle's container field refers to.
C18_NoLeakedContainer ==
    \A id \in DOMAIN d : d[id] # "removed" => self.container = Some(id)

\* C19: a stop that raises the error of the fourth failed removal leaves
\* running false and the reference on the unremoved container; a stop of a
\* handle in that state (a reference, not running) opens no file, leaves the
\* files as they are, and attempts the removal of that same container anew,
\* at most 4 times.
C19_StopAfterFailedTeardown ==
    /\ []((result.op = "stop"
             /\ result.exc = Some(APIError("remove_container", 4))) =>
             /\ ~self.running
             /\ ~IsNone(self.container)
             /\ d[Val(self.container)] # "removed")
    /\ [][(result'.op = "stop" /\ ~self.running /\ ~IsNone(self.container)) =>
             LET removes == Events(log', "remove_container")
                 inspects == Events(log', "inspect_container")
             IN /\ Events(log', "open") = <<>>
                /\ Events(log', "logs") = <<>>
                /\ files' = files
                /\ Len(removes) <= 4
                /\ \A i \in 1..Len(removes) : removes[i][2] = Val(self.container)
                /\ (inspects # <<>> /\ AnswerOf(inspects[1]) = "ok"
                      /\ \A i \in 1..Len(log') : log'[i][1] = "kill" =>
                            AnswerOf(log'[i]) = "ok") =>
                      removes # <<>>]_vars

\* a stop that removed, without saving again, the container whose log an
\* earlier stop had saved
C19_Witness ==
    /\ result.op = "stop"
    /\ Opens = <<>>
    /\ Events(log, "remove_container") # <<>>
    /\ IsNone(result.exc)
    /\ args.save_output
    /\ LET id == Events(log, "remove_container")[1][2]
       IN /\ OutPath(NameForId(id)) \in DOMAIN files
          /\ files[OutPath(NameForId(id))] # <<>>

\* C20: the file a stop opens is named from the name given at construction
\* and the identifier of the container being stopped, and from nothing else.
C20_LogNamePerContainer ==
    (result.op = "stop" /\ Opens # <<>>) =>
        Opens[1][2] = OutPath(NameForId(LogsCalls[1][2]))

====
